---- MODULE Spec2Model ----
(***************************************************************************)
(* A model of libp2p_msg: the per-connection Handler (src/src/handler.rs)  *)
(* and the chat example that drives it (src/examples/chat.rs).             *)
(***************************************************************************)
EXTENDS Integers, Sequences, FiniteSets, Bags, TLC

\* ------------------------------------------------------------------ bounds

\* Number of events the substrate hands to one Handler in a run.
MaxEvents == 3

\* Number of lines read from stdin in a run.
MaxLines == 2

\* Number of connections the swarm opens in a run.
MaxConns == 2

\* Number of Identify Received events delivered during one bootstrap loop.
MaxIdentify == 2

\* Number of NewListenAddr events delivered during the listen wait.
MaxListenAddrs == 2

\* Number of events a Handler holds at once when events never stop coming.
MaxQueued == 3

\* ------------------------------------------------------------------ program constants

\* const BUFFER_SIZE (1024 * 1024 in the source, scaled down to 2 bytes; the
\* files below are sized in multiples of it).
BUFFER_SIZE == 2

\* ------------------------------------------------------------------ domains

\* The two peers of an exchange; each runs the same program.
Node == {"A", "B"}

Other(n) == IF n = "A" THEN "B" ELSE "A"

\* Payloads the substrate hands to a Handler (protocol::MsgContent.data).
Payloads == {<<>>, <<1>>, <<2, 3>>}

\* Peer ids: the two nodes and the relay / rendezvous point, in the order of
\* PeerId's Ord (the order BTreeMap iterates in).
PeerOrder == <<"A", "B", "R">>

PeerIds == {PeerOrder[i] : i \in 1..Len(PeerOrder)}

\* Values of ConnectedPoint.
Endpoints == {"e1", "e2"}

\* The file system: the size of each file that exists, in bytes: 0, less
\* than BUFFER_SIZE, BUFFER_SIZE, one more, twice and three times BUFFER_SIZE.
\* Any other path does not name a file.
FileSizes ==
    [empty |-> 0, f1 |-> 1, f2 |-> 2, f3 |-> 3, f4 |-> 4, f6 |-> 6]

FileExists(path) == Len(path) = 1 /\ path[1] \in DOMAIN FileSizes

\* The bytes of a file that exists: byte i of every file is i.
FileBytes(path) == [i \in 1..FileSizes[path[1]] |-> i]

\* Lines typed on stdin, as sequences of symbols: " " is the space character,
\* any other symbol a run of characters without a space.
StdinLines ==
    { <<"ls">>,
      <<"ls", " ", "-l">>,
      <<"file", " ", "B", " ", "empty">>,
      <<"file", " ", "B", " ", "f2">>,
      <<"file", " ", "B", " ", "missing">>,
      <<"file", " ", "not-a-peer-id", " ", "f3">>,
      <<"file", " ", " ", "B", " ", "f3">>,
      <<"file", " ", "B">>,
      <<"file">>,
      <<"hello">>,
      <<>> }

\* The file commands of a single send session, one for each file and one for
\* a path that names no file.
SessionLines ==
    { <<"file", " ", "B", " ", path>> :
        path \in DOMAIN FileSizes \cup {"missing"} }

\* ------------------------------------------------------------------ state

VARIABLES
    queued_events,  \* Handler.queued_events of the handler of each node
    last_poll,      \* history: what the latest poll of each handler returned
    enq,            \* history: the calls that enqueued on each handler, in order
    ret,            \* history: the events poll has returned, in order
    unret,          \* history: positions of enq not yet accounted as returned
    resolved,       \* history: the outcomes of the outbound substreams requested
    watch,          \* history: one enqueued event of each handler, followed
                    \* from its enqueueing to its return by poll
    mainpc,         \* where main() of each node is: "listen", "bootstrap",
                    \* "steady", or "panicked" once a panic has ended it
    calls,          \* the calls main has made on the swarm and its behaviours
    cookie,         \* main's local of that name
    rendezvous,     \* the requests in flight at the rendezvous point and the
                    \* peers registered there
    events,         \* history: the swarm events main has handled, in order
    learned_observed_addr,     \* main's local of that name
    told_relay_observed_addr,  \* main's local of that name
    peers,          \* main's BTreeMap<PeerId, HashSet<ConnectedPoint>>
    conns,          \* the connections the swarm of each node has open
    opened,         \* number of connections the swarm has opened so far
    line,           \* the latest line main read from stdin
    nlines,         \* number of lines read from stdin so far
    listing,        \* what the latest handle_list_peers printed
    stderr,         \* the messages written to the error stream, in order
    sessions,       \* the handle_send_file tasks spawned, in spawn order
    file_chan,      \* the content of the (file_tx, file_rx) channel
    submitted,      \* history: the sendmsg.send calls main made, in order
    net,            \* the outbound substreams each node opened, in flight
    inbox,          \* Event::Send events the swarm holds for main
    recv_files,     \* the files under BASE_PATH, by sender peer id
    handled,        \* history: the Event::Send events main has handled
    stacked         \* history: some handler held two events at once

handlerVars == <<queued_events>>
historyVars == <<last_poll, enq, ret, unret, resolved, watch>>
startVars == <<calls, cookie, rendezvous, events>>
bootVars == <<learned_observed_addr, told_relay_observed_addr>>
regVars == <<peers, conns, opened>>
ioVars == <<line, nlines, listing, stderr>>
sendVars == <<sessions, file_chan, submitted>>
netVars == <<net, inbox, recv_files, handled, stacked>>

vars ==
    <<queued_events, last_poll, enq, ret, unret, resolved, watch, mainpc, calls,
      cookie, rendezvous, events, learned_observed_addr,
      told_relay_observed_addr, peers, conns, opened, line, nlines, listing,
      stderr, sessions, file_chan, submitted, net, inbox, recv_files, handled,
      stacked>>

\* ------------------------------------------------------------------ helpers

RECURSIVE SetMax(_)
SetMax(S) ==
    LET x == CHOOSE y \in S : TRUE IN
    IF S = {x} THEN x
    ELSE LET m == SetMax(S \ {x}) IN IF x > m THEN x ELSE m

Min(a, b) == IF a < b THEN a ELSE b

RECURSIVE Concat(_)
Concat(ss) == IF ss = <<>> THEN <<>> ELSE Head(ss) \o Concat(Tail(ss))

RECURSIVE BagOfSeq(_)
BagOfSeq(s) ==
    IF s = <<>> THEN EmptyBag ELSE SetToBag({Head(s)}) (+) BagOfSeq(Tail(s))

\* ------------------------------------------------------------------ VecDeque

\* VecDeque::push_back
push_back(q, e) == Append(q, e)

\* A faulty pop: takes the element at the front.
pop_front(q) ==
    IF q = <<>> THEN [some |-> FALSE, item |-> <<>>, rest |-> q]
    ELSE [some |-> TRUE, item |-> Head(q), rest |-> Tail(q)]

\* A faulty pop: returns the last element without removing it.
peek_back(q) ==
    IF q = <<>> THEN [some |-> FALSE, item |-> <<>>, rest |-> q]
    ELSE [some |-> TRUE, item |-> q[Len(q)], rest |-> q]

\* VecDeque::pop_back: None on an empty deque, else the last element.
pop_back(q) ==
    IF q = <<>> THEN [some |-> FALSE, item |-> <<>>, rest |-> q]
    ELSE [some |-> TRUE, item |-> q[Len(q)], rest |-> SubSeq(q, 1, Len(q) - 1)]

\* ------------------------------------------------------------------ Handler

\* protocol::MsgContent { data }
MsgContent(data) == [data |-> data]

\* ConnectionHandlerEvent::Custom(MsgContent { data })
Custom(msg) == [kind |-> "Custom", data |-> msg.data]

\* ConnectionHandlerEvent::OutboundSubstreamRequest { protocol: msg }
OutboundSubstreamRequest(msg) ==
    [kind |-> "OutboundSubstreamRequest", data |-> msg.data]

\* Poll::Pending
Pending == [kind |-> "Pending"]

\* Handler::new
HandlerNew == <<>>

\* Handler::inject_fully_negotiated_inbound(output), on the queue self
inject_fully_negotiated_inbound(self, output) ==
    push_back(self, Custom(MsgContent(output)))

\* Handler::inject_event(msg), on the queue self
inject_event(self, msg) ==
    push_back(self, OutboundSubstreamRequest(msg))

\* protocol::Success::OK, the output of the outbound upgrade
Success == "OK"

\* ConnectionHandlerUpgrErr: a timeout, or an I/O error of the upgrade
UpgradeErrors == {"Timeout", "Upgrade"}

\* Handler::inject_fully_negotiated_outbound(_output, ()), on the queue self
inject_fully_negotiated_outbound(self, output) == self

\* A faulty error handler: queues the failed request again, with no bytes.
requeue_on_error(self, info, error) ==
    push_back(self, OutboundSubstreamRequest(MsgContent(<<>>)))

\* Handler::inject_dial_upgrade_error(_info, _error), on the queue self
inject_dial_upgrade_error(self, info, error) == self

\* The history of one event: none followed yet; or the event followed, its
\* place in the queue, how many events were enqueued after it (counted up
\* to MaxQueued), and whether poll has returned it.
WatchNone == [state |-> "none", ev |-> Pending, pos |-> 0, later |-> 0]

\* A faulty poll: never returns an event.
poll_pending(self) == [self |-> self, ret |-> Pending]

\* Handler::poll, on the queue self: the queue it leaves and what it returns
poll(self) ==
    LET r == pop_back(self) IN
    [self |-> r.rest, ret |-> IF r.some THEN r.item ELSE Pending]

\* ------------------------------------------------------------------ Command

\* str::splitn(k, ' '): at most k pieces, cut at the first k - 1 spaces.
RECURSIVE splitn(_, _)
splitn(k, str) ==
    LET sp == {i \in 1..Len(str) : str[i] = " "} IN
    IF k <= 1 \/ sp = {}
    THEN <<str>>
    ELSE LET i == CHOOSE j \in sp : \A m \in sp : j <= m IN
         <<SubSeq(str, 1, i - 1)>> \o splitn(k - 1, SubSeq(str, i + 1, Len(str)))

\* <PeerId as FromStr>::from_str: only the text of a peer id parses.
parse_peer_id(token) ==
    IF Len(token) = 1 /\ token[1] \in PeerIds
    THEN [ok |-> TRUE, value |-> token[1]]
    ELSE [ok |-> FALSE, value |-> "none"]

\* <PathBuf as FromStr>::from_str: never fails.
parse_path(token) == [ok |-> TRUE, value |-> token]

ListPeers == [tag |-> "ListPeers"]
SendFile(peer_id, file_path) ==
    [tag |-> "SendFile", peer_id |-> peer_id, file_path |-> file_path]
Unknown == [tag |-> "Unknown"]
CommandErr == [tag |-> "Err"]

\* A faulty parser: takes the peer id as typed, without parsing it.
try_from_unparsed(str) ==
    LET tokens == splitn(3, str) IN
    IF tokens[1] = <<"ls">> THEN ListPeers
    ELSE IF tokens[1] = <<"file">>
    THEN IF Len(tokens) < 3 THEN CommandErr
         ELSE SendFile("B", parse_path(tokens[3]).value)
    ELSE Unknown

\* Command::try_from(line)
try_from(str) ==
    LET tokens == splitn(3, str) IN
    IF tokens[1] = <<"ls">> THEN ListPeers
    ELSE IF tokens[1] = <<"file">>
    THEN IF Len(tokens) < 3 THEN CommandErr
         ELSE LET peer_id == parse_peer_id(tokens[2])
                  file_path == parse_path(tokens[3])
              IN IF ~peer_id.ok THEN CommandErr
                 ELSE IF ~file_path.ok THEN CommandErr
                 ELSE SendFile(peer_id.value, file_path.value)
    ELSE Unknown

\* The message of main's Err(_) arm.
WrongCommand == "Wrong command, available commans are: ls, file <PeerId> <File Path>"

\* The message of a failed send session or receive.
ErrorReport == "Error"

\* ------------------------------------------------------------------ registry

\* peers.entry(peer_id).or_default().insert(endpoint)
registry_insert(reg, peer_id, endpoint) ==
    [p \in DOMAIN reg \cup {peer_id} |->
        IF p = peer_id
        THEN (IF p \in DOMAIN reg THEN reg[p] ELSE {}) \cup {endpoint}
        ELSE reg[p]]

\* The ConnectionClosed arm: remove the endpoint, and the peer with its last.
registry_remove(reg, peer_id, endpoint) ==
    IF peer_id \notin DOMAIN reg THEN reg
    ELSE LET eps == reg[peer_id] \ {endpoint} IN
         IF eps = {}
         THEN [p \in DOMAIN reg \ {peer_id} |-> reg[p]]
         ELSE [reg EXCEPT ![peer_id] = eps]

\* handle_list_peers: the keys of the map, in key order.
handle_list_peers(reg) == SelectSeq(PeerOrder, LAMBDA p : p \in DOMAIN reg)

\* ------------------------------------------------------------------ handle_send_file

\* vec![0; BUFFER_SIZE]
ZeroBuf == [i \in 1..BUFFER_SIZE |-> 0]

\* What file.read(&mut buf) may return at offset pos of a file: an error, zero
\* at the end of the file, and else any count from one byte up to the buffer's
\* length or the rest of the file (a short read).
ReadResults(bytes, pos) ==
    {[ok |-> FALSE, n |-> 0]}
    \cup {[ok |-> TRUE, n |-> k] :
            k \in (IF pos = Len(bytes) THEN {0}
                   ELSE 1..Min(BUFFER_SIZE, Len(bytes) - pos))}

\* The buffer after a read of n bytes at offset pos: the bytes read, then
\* what the buffer held.
read_into(buf, bytes, pos, n) ==
    [i \in 1..Len(buf) |-> IF i <= n THEN bytes[pos + i] ELSE buf[i]]

\* A faulty truncate: leaves the buffer as it is.
truncate_not(buf, n) == buf

\* Vec::truncate(n)
truncate(buf, n) == IF n < Len(buf) THEN SubSeq(buf, 1, n) ELSE buf

\* A faulty loop body: sends the buffer first and looks for the end of the
\* file afterwards.
send_before_check(bytes, pos, n) ==
    LET buf == read_into(ZeroBuf, bytes, pos, n) IN
    [brk |-> n = 0, push |-> <<truncate(buf, n)>>]

\* One turn of handle_send_file's loop after a read of n bytes: whether the
\* loop breaks, and the chunks it sends on file_tx.
send_loop_body(bytes, pos, n) ==
    LET buf == read_into(ZeroBuf, bytes, pos, n) IN
    IF n = 0
    THEN [brk |-> TRUE, push |-> <<>>]
    ELSE [brk |-> FALSE, push |-> <<truncate(buf, n)>>]

\* A faulty channel: hands out the latest item first.
chan_recv_latest(ch) ==
    [item |-> ch[Len(ch)], rest |-> SubSeq(ch, 1, Len(ch) - 1)]

\* async_std::channel::unbounded: Sender::send and Receiver::recv.
chan_send(ch, item) == Append(ch, item)
chan_recv(ch) == [item |-> Head(ch), rest |-> Tail(ch)]

\* The task main spawns for a SendFile command, before its first step.
SpawnSendFile(peer_id, file_path) ==
    [peer_id |-> peer_id, file_path |-> file_path, pc |-> "open", pos |-> 0,
     pushed |-> <<>>]

\* OpenOptions::new().read(true).open(file_path) succeeds.
SendFileOpen(n, s) ==
    /\ s \in 1..Len(sessions[n])
    /\ sessions[n][s].pc = "open"
    /\ FileExists(sessions[n][s].file_path)
    /\ sessions' = [sessions EXCEPT ![n][s].pc = "loop"]
    /\ UNCHANGED <<handlerVars, historyVars, startVars, mainpc, bootVars,
                   regVars, ioVars, file_chan, submitted, netVars>>

\* open fails: handle_send_file returns the error and the task reports it.
SendFileOpenErr(n, s) ==
    /\ s \in 1..Len(sessions[n])
    /\ sessions[n][s].pc = "open"
    /\ ~FileExists(sessions[n][s].file_path)
    /\ sessions' = [sessions EXCEPT ![n][s].pc = "err"]
    /\ stderr' = [stderr EXCEPT ![n] = Append(@, ErrorReport)]
    /\ UNCHANGED <<handlerVars, historyVars, startVars, mainpc, bootVars,
                   regVars, line, nlines, listing, file_chan, submitted,
                   netVars>>

\* One turn of the loop whose read succeeds: up to the pacing sleep, or out
\* of the loop and Ok(()).
SendFileLoop(n, s) ==
    /\ s \in 1..Len(sessions[n])
    /\ sessions[n][s].pc = "loop"
    /\ LET ses == sessions[n][s]
           bytes == FileBytes(ses.file_path)
       IN \E r \in ReadResults(bytes, ses.pos) :
            /\ r.ok
            /\ LET body == send_loop_body(bytes, ses.pos, r.n)
                   tagged == [k \in 1..Len(body.push) |->
                                 [peer_id |-> ses.peer_id, data |-> body.push[k],
                                  sid |-> s, seq |-> Len(ses.pushed) + k]]
               IN /\ sessions' = [sessions EXCEPT ![n][s] =
                        [ses EXCEPT !.pc = IF body.brk THEN "ok" ELSE "loop",
                                    !.pos = ses.pos + r.n,
                                    !.pushed = ses.pushed \o body.push]]
                  /\ file_chan' = [file_chan EXCEPT ![n] =
                        IF tagged = <<>> THEN @ ELSE chan_send(@, tagged[1])]
    /\ UNCHANGED <<handlerVars, historyVars, startVars, mainpc, bootVars,
                   regVars, ioVars, submitted, netVars>>

\* A faulty failure: the task reports the error of the read and starts the
\* file over.
SendFileReadErrRetry(n, s) ==
    /\ s \in 1..Len(sessions[n])
    /\ sessions[n][s].pc = "loop"
    /\ sessions' = [sessions EXCEPT ![n][s].pos = 0]
    /\ stderr' = [stderr EXCEPT ![n] = Append(@, ErrorReport)]
    /\ UNCHANGED <<handlerVars, historyVars, startVars, mainpc, bootVars,
                   regVars, line, nlines, listing, file_chan, submitted,
                   netVars>>

\* The read fails: handle_send_file returns the error and the task reports it.
SendFileReadErr(n, s) ==
    /\ s \in 1..Len(sessions[n])
    /\ sessions[n][s].pc = "loop"
    /\ \E r \in ReadResults(FileBytes(sessions[n][s].file_path), sessions[n][s].pos) :
          ~r.ok
    /\ sessions' = [sessions EXCEPT ![n][s].pc = "err"]
    /\ stderr' = [stderr EXCEPT ![n] = Append(@, ErrorReport)]
    /\ UNCHANGED <<handlerVars, historyVars, startVars, mainpc, bootVars,
                   regVars, line, nlines, listing, file_chan, submitted,
                   netVars>>

\* ------------------------------------------------------------------ libp2p_msg::Behaviour and the substrate

\* The history of the handlers' queues: whether one has held two events.
Stacking ==
    stacked' = (stacked \/ \E n \in Node : Len(queued_events'[n]) >= 2)

\* Behaviour::send(data, peer_id): submits the chunk to the handler of the
\* connection to peer_id; a peer without a connection has no handler.
BehaviourSend(n, data, peer_id) ==
    queued_events' =
        IF peer_id = Other(n)
        THEN [queued_events EXCEPT ![n] = inject_event(@, MsgContent(data))]
        ELSE queued_events

\* The Event the behaviour emits for a Custom event of the handler of the
\* connection to peer.
SendEvent(peer, ev) == [peer |-> peer, result |-> MsgContent(ev.data)]

\* The connection task polls the handler and acts on what it returns: an
\* outbound request opens a substream that carries the bytes, a Custom event
\* goes to the behaviour, which emits it to main.
SwarmPoll(n) ==
    LET r == poll(queued_events[n]) IN
    /\ queued_events' = [queued_events EXCEPT ![n] = r.self]
    /\ net' = [net EXCEPT ![n] =
                  IF r.ret.kind = "OutboundSubstreamRequest"
                  THEN Append(@, r.ret.data) ELSE @]
    /\ inbox' = [inbox EXCEPT ![n] =
                  IF r.ret.kind = "Custom"
                  THEN Append(@, SendEvent(Other(n), r.ret)) ELSE @]
    /\ UNCHANGED <<historyVars, startVars, mainpc, bootVars, regVars, ioVars,
                   sendVars, recv_files, handled, stacked>>

\* The oldest substream n opened completes at the other node: the inbound
\* upgrade has read the bytes to the end of the stream.
SubstreamArrives(n) ==
    /\ net[n] # <<>>
    /\ queued_events' = [queued_events EXCEPT ![Other(n)] =
                            inject_fully_negotiated_inbound(@, Head(net[n]))]
    /\ net' = [net EXCEPT ![n] = Tail(@)]
    /\ Stacking
    /\ UNCHANGED <<historyVars, startVars, mainpc, bootVars, regVars, ioVars,
                   sendVars, inbox, recv_files, handled>>

\* ------------------------------------------------------------------ main: the steady-state loop

\* A faulty receive: create(true).write(true) without append(true) writes
\* the chunk over the start of the file.
handle_rev_file_overwrite(files, event) ==
    LET old == files[event.peer]
        new == event.result.data
    IN [files EXCEPT ![event.peer] =
           new \o SubSeq(old, Len(new) + 1, Len(old))]

\* A faulty receive: one target file for all senders, a path without
\* event.peer.
handle_rev_file_shared(files, event) ==
    [p \in DOMAIN files |-> files[p] \o event.result.data]

\* handle_rev_file(event): append the chunk to BASE_PATH/<event.peer>.
handle_rev_file(files, event) ==
    [files EXCEPT ![event.peer] = @ \o event.result.data]

\* file_data = file_rx.recv() => sendmsg.send(data, peer_id)
MainFileRx(n) ==
    /\ mainpc[n] = "steady"
    /\ file_chan[n] # <<>>
    /\ LET r == chan_recv(file_chan[n]) IN
        /\ file_chan' = [file_chan EXCEPT ![n] = r.rest]
        /\ BehaviourSend(n, r.item.data, r.item.peer_id)
        /\ submitted' = [submitted EXCEPT ![n] = Append(@, r.item)]
    /\ Stacking
    /\ UNCHANGED <<historyVars, startVars, mainpc, bootVars, regVars, ioVars,
                   sessions, net, inbox, recv_files, handled>>

\* main reads the line str from stdin.
ReadLine(n, str) ==
    /\ mainpc[n] = "steady"
    /\ nlines[n] < MaxLines
    /\ line' = [line EXCEPT ![n] = str]
    /\ nlines' = [nlines EXCEPT ![n] = @ + 1]

\* Ok(Command::ListPeers) => handle_list_peers(&peers)
MainListPeers(n, str) ==
    /\ ReadLine(n, str)
    /\ try_from(str).tag = "ListPeers"
    /\ listing' = [listing EXCEPT ![n] = handle_list_peers(peers[n])]
    /\ UNCHANGED <<handlerVars, historyVars, startVars, mainpc, bootVars,
                   regVars, stderr, sendVars, netVars>>

\* Ok(Command::SendFile { peer_id, file_path }) => spawn handle_send_file
MainSendFile(n, str) ==
    /\ ReadLine(n, str)
    /\ try_from(str).tag = "SendFile"
    /\ sessions' = [sessions EXCEPT ![n] =
          Append(@, SpawnSendFile(try_from(str).peer_id, try_from(str).file_path))]
    /\ UNCHANGED <<handlerVars, historyVars, startVars, mainpc, bootVars,
                   regVars, listing, stderr, file_chan, submitted, netVars>>

\* Err(_) => eprintln!("Wrong command, ...")
MainWrongCommand(n, str) ==
    /\ ReadLine(n, str)
    /\ try_from(str).tag = "Err"
    /\ stderr' = [stderr EXCEPT ![n] = Append(@, WrongCommand)]
    /\ UNCHANGED <<handlerVars, historyVars, startVars, mainpc, bootVars,
                   regVars, listing, sendVars, netVars>>

\* _ => {}
MainUnknown(n, str) ==
    /\ ReadLine(n, str)
    /\ try_from(str).tag = "Unknown"
    /\ UNCHANGED <<handlerVars, historyVars, startVars, mainpc, bootVars,
                   regVars, listing, stderr, sendVars, netVars>>

\* The history of the handling of an Event::Send: the event, whether
\* handle_rev_file returned Ok, and the bytes of the event that reached the file.
Handled(n, event, ok, wrote) ==
    handled' = [handled EXCEPT ![n] =
                   Append(@, [peer |-> event.peer, data |-> event.result.data,
                              ok |-> ok, wrote |-> wrote])]

\* SwarmEvent::Behaviour(Event::Send(event)) => handle_rev_file(event), which
\* returns Ok.
MainSendEvent(n) ==
    /\ mainpc[n] = "steady"
    /\ inbox[n] # <<>>
    /\ recv_files' = [recv_files EXCEPT ![n] = handle_rev_file(@, Head(inbox[n]))]
    /\ inbox' = [inbox EXCEPT ![n] = Tail(@)]
    /\ Handled(n, Head(inbox[n]), TRUE, Head(inbox[n]).result.data)
    /\ UNCHANGED <<handlerVars, historyVars, startVars, mainpc, bootVars,
                   regVars, ioVars, sendVars, net, stacked>>

\* The byte counts after which handle_rev_file may fail on a chunk: none
\* when open fails, and any count short of the chunk when write_all does.
WriteFailures(data) == 0..(IF data = <<>> THEN 0 ELSE Len(data) - 1)

\* handle_rev_file(event) when open or write_all returns an error after k
\* bytes of the chunk have reached the file.
handle_rev_file_err(files, event, k) ==
    [files EXCEPT ![event.peer] = @ \o SubSeq(event.result.data, 1, k)]

\* SwarmEvent::Behaviour(Event::Send(event)) => handle_rev_file(event), which
\* returns an error: eprintln!("Error: {:?}", e).
MainSendEventErr(n, k) ==
    /\ mainpc[n] = "steady"
    /\ inbox[n] # <<>>
    /\ k \in WriteFailures(Head(inbox[n]).result.data)
    /\ recv_files' = [recv_files EXCEPT ![n] =
                         handle_rev_file_err(@, Head(inbox[n]), k)]
    /\ inbox' = [inbox EXCEPT ![n] = Tail(@)]
    /\ stderr' = [stderr EXCEPT ![n] = Append(@, ErrorReport)]
    /\ Handled(n, Head(inbox[n]), FALSE, SubSeq(Head(inbox[n]).result.data, 1, k))
    /\ UNCHANGED <<handlerVars, historyVars, startVars, mainpc, bootVars,
                   regVars, line, nlines, listing, sendVars, net, stacked>>

\* The swarm opens a connection to peer_id over endpoint. Two connections of
\* a peer may have equal ConnectedPoint values (two dials of one address).
Connect(n, peer_id, endpoint) ==
    /\ opened[n] < MaxConns
    /\ peer_id \in PeerIds \ {n}
    /\ opened' = [opened EXCEPT ![n] = @ + 1]
    /\ conns' = [conns EXCEPT ![n] = @ \cup
          {[id |-> opened[n] + 1, peer_id |-> peer_id, endpoint |-> endpoint]}]

\* SwarmEvent::ConnectionEstablished { peer_id, endpoint, .. } in the loop
MainConnectionEstablished(n, peer_id, endpoint) ==
    /\ mainpc[n] = "steady"
    /\ Connect(n, peer_id, endpoint)
    /\ peers' = [peers EXCEPT ![n] = registry_insert(@, peer_id, endpoint)]
    /\ UNCHANGED <<handlerVars, historyVars, startVars, mainpc, bootVars,
                   ioVars, sendVars, netVars>>

\* SwarmEvent::ConnectionClosed { peer_id, endpoint, .. } in the loop
MainConnectionClosed(n, c) ==
    /\ mainpc[n] = "steady"
    /\ c \in conns[n]
    /\ conns' = [conns EXCEPT ![n] = @ \ {c}]
    /\ peers' = [peers EXCEPT ![n] = registry_remove(@, c.peer_id, c.endpoint)]
    /\ UNCHANGED <<handlerVars, historyVars, startVars, mainpc, bootVars,
                   opened, ioVars, sendVars, netVars>>

\* ------------------------------------------------------------------ the swarm's calls and the rendezvous point

\* const NAMESPACE; the register call names the same namespace.
NAMESPACE == "rendezvous"

\* Multiaddr: the address main listens on first, opts.relay_address, and
\* Multiaddr::with, which appends a protocol.
LocalAddress == <<"0.0.0.0", "tcp">>

relay_address == <<"relay">>

P2pCircuit == "p2p-circuit"

with(addr, protocol) == Append(addr, protocol)

\* Option<Cookie>: None, or the cookie of a response, which stands for the
\* registrations the rendezvous point has returned up to that response.
NoCookie == [some |-> FALSE, covers |-> {}]

SomeCookie(covers) == [some |-> TRUE, covers |-> covers]

\* The calls main makes: swarm.listen_on(addr), swarm.dial(addr),
\* rendezvous.register(namespace, rendezvous_point, None) and
\* rendezvous.discover(Some(namespace), cookie, None, rendezvous_point).
ListenOnCall(addr) ==
    [op |-> "listen_on", addr |-> addr, namespace |-> "", cookie |-> NoCookie]

DialCall(addr) ==
    [op |-> "dial", addr |-> addr, namespace |-> "", cookie |-> NoCookie]

RegisterCall(namespace) ==
    [op |-> "register", addr |-> <<>>, namespace |-> namespace,
     cookie |-> NoCookie]

DiscoverCall(namespace, c) ==
    [op |-> "discover", addr |-> <<>>, namespace |-> namespace, cookie |-> c]

\* The calls of one kind among the calls made.
CallsOf(cs, op) == SelectSeq(cs, LAMBDA c : c.op = op)

\* The addresses of the peer record a peer registers with.
Addresses(p) == IF p = "B" THEN <<"b1", "b2">> ELSE <<"a1">>

\* A Registration returned by a discovery: registration.record.
Registration(p) == [peer_id |-> p, addresses |-> Addresses(p)]

\* What the rendezvous point answers to a discover carrying the cookie c when
\* the peers regs are registered: without a cookie every registration, with
\* one the registrations it does not cover; and a cookie that covers them all.
DiscoverResponse(regs, c) ==
    LET fresh == IF c.some THEN regs \ c.covers ELSE regs
        order == SelectSeq(PeerOrder, LAMBDA p : p \in fresh)
    IN [registrations |-> [i \in 1..Len(order) |-> Registration(order[i])],
        cookie |-> regs \cup c.covers]

\* The state of the exchange with the rendezvous point before any request.
RendezvousNew == [registering |-> 0, discovering |-> <<>>, regs |-> {}]

\* The history of a swarm event main handled.
Event(ev, phase, registrations, c) ==
    [ev |-> ev, phase |-> phase, registrations |-> registrations, cookie |-> c]

\* The events of one kind among the events handled.
EventsOf(es, ev) == SelectSeq(es, LAMBDA e : e.ev = ev)

\* The results swarm.dial may return.
DialResults == {"Ok", "Err"}

\* ------------------------------------------------------------------ main: the bootstrap loop

\* if learned_observed_addr && told_relay_observed_addr { break; }
BootstrapBreak(n, learned, told) ==
    mainpc' = [mainpc EXCEPT ![n] = IF learned /\ told THEN "steady" ELSE @]

\* The calls made once the turn of the bootstrap loop that made the calls cs
\* is over: after the break, swarm.listen_on(relay_address.with(P2pCircuit)),
\* on the way to the steady-state loop.
RelayListen(cs, learned, told) ==
    IF learned /\ told
    THEN Append(cs, ListenOnCall(with(relay_address, P2pCircuit)))
    ELSE cs

\* SwarmEvent::ConnectionEstablished { peer_id, .. } => info!(peer_id)
BootConnectionEstablished(n, peer_id, endpoint) ==
    /\ mainpc[n] = "bootstrap"
    /\ Connect(n, peer_id, endpoint)
    /\ UNCHANGED <<handlerVars, historyVars, startVars, mainpc, bootVars,
                   peers, ioVars, sendVars, netVars>>

\* event => info!(event), for a ConnectionClosed
BootConnectionClosed(n, c) ==
    /\ mainpc[n] = "bootstrap"
    /\ c \in conns[n]
    /\ conns' = [conns EXCEPT ![n] = @ \ {c}]
    /\ UNCHANGED <<handlerVars, historyVars, startVars, mainpc, bootVars,
                   peers, opened, ioVars, sendVars, netVars>>

\* Event::Identify(IdentifyEvent::Sent) => told_relay_observed_addr = true
BootIdentifySent(n) ==
    /\ mainpc[n] = "bootstrap"
    /\ conns[n] # {}
    /\ told_relay_observed_addr' = [told_relay_observed_addr EXCEPT ![n] = TRUE]
    /\ calls' = [calls EXCEPT ![n] =
                    RelayListen(@, learned_observed_addr[n], TRUE)]
    /\ BootstrapBreak(n, learned_observed_addr[n], TRUE)
    /\ UNCHANGED <<handlerVars, historyVars, cookie, rendezvous, events,
                   learned_observed_addr, regVars, ioVars, sendVars, netVars>>

\* Event::Identify(IdentifyEvent::Received) => learned_observed_addr = true,
\* and rendezvous.register(namespace, rendezvous_point, None), which puts a
\* register request in flight.
BootIdentifyReceived(n) ==
    /\ mainpc[n] = "bootstrap"
    /\ conns[n] # {}
    /\ Len(CallsOf(calls[n], "register")) < MaxIdentify
    /\ learned_observed_addr' = [learned_observed_addr EXCEPT ![n] = TRUE]
    /\ calls' = [calls EXCEPT ![n] =
                    RelayListen(Append(@, RegisterCall(NAMESPACE)),
                                TRUE, told_relay_observed_addr[n])]
    /\ rendezvous' = [rendezvous EXCEPT ![n].registering = @ + 1]
    /\ BootstrapBreak(n, TRUE, told_relay_observed_addr[n])
    /\ UNCHANGED <<handlerVars, historyVars, cookie, events,
                   told_relay_observed_addr, regVars, ioVars, sendVars, netVars>>

\* event => info!(event), for a rendezvous Registered: the rendezvous point
\* has stored the registration, and the loop goes on.
BootRegistered(n) ==
    /\ mainpc[n] = "bootstrap"
    /\ rendezvous[n].registering > 0
    /\ rendezvous' = [rendezvous EXCEPT ![n].registering = @ - 1,
                                        ![n].regs = @ \cup {n}]
    /\ events' = [events EXCEPT ![n] =
                     Append(@, Event("Registered", mainpc[n], <<>>, NoCookie))]
    /\ UNCHANGED <<handlerVars, historyVars, mainpc, calls, cookie, bootVars,
                   regVars, ioVars, sendVars, netVars>>

\* ------------------------------------------------------------------ main: the listen wait and the bootstrap dial

\* SwarmEvent::NewListenAddr { address, .. } => println!(address)
ListenNewListenAddr(n) ==
    /\ mainpc[n] = "listen"
    /\ Len(EventsOf(events[n], "NewListenAddr")) < MaxListenAddrs
    /\ events' = [events EXCEPT ![n] =
                     Append(@, Event("NewListenAddr", mainpc[n], <<>>, NoCookie))]
    /\ UNCHANGED <<handlerVars, historyVars, mainpc, calls, cookie, rendezvous,
                   bootVars, regVars, ioVars, sendVars, netVars>>

\* event => panic!(event): any other event of the swarm during the wait, an
\* incoming connection on the address just bound for one.
ListenOtherEvent(n) ==
    /\ mainpc[n] = "listen"
    /\ mainpc' = [mainpc EXCEPT ![n] = "panicked"]
    /\ events' = [events EXCEPT ![n] =
                     Append(@, Event("IncomingConnection", mainpc[n], <<>>, NoCookie))]
    /\ UNCHANGED <<handlerVars, historyVars, calls, cookie, rendezvous,
                   bootVars, regVars, ioVars, sendVars, netVars>>

\* _ = delay => break, after 100 ms.
ListenTimeout(n) ==
    /\ mainpc[n] = "listen"
    /\ mainpc' = [mainpc EXCEPT ![n] = "dial"]
    /\ UNCHANGED <<handlerVars, historyVars, startVars, bootVars, regVars,
                   ioVars, sendVars, netVars>>

\* swarm.dial(opts.relay_address.clone()).unwrap(), then into the bootstrap
\* loop with both locals false.
BootstrapDial(n, result) ==
    /\ mainpc[n] = "dial"
    /\ result \in DialResults
    /\ calls' = [calls EXCEPT ![n] = Append(@, DialCall(relay_address))]
    /\ mainpc' = [mainpc EXCEPT ![n] =
                     IF result = "Ok" THEN "bootstrap" ELSE "panicked"]
    /\ UNCHANGED <<handlerVars, historyVars, cookie, rendezvous, events,
                   bootVars, regVars, ioVars, sendVars, netVars>>

\* ------------------------------------------------------------------ main: the rendezvous arms of the steady-state loop

\* Event::Rendezvous(Registered { .. }) => rendezvous.discover(
\*     Some(Namespace::new(NAMESPACE)), None, None, rendezvous_point)
MainRegistered(n) ==
    /\ mainpc[n] = "steady"
    /\ rendezvous[n].registering > 0
    /\ calls' = [calls EXCEPT ![n] = Append(@, DiscoverCall(NAMESPACE, NoCookie))]
    /\ rendezvous' = [rendezvous EXCEPT ![n].registering = @ - 1,
                                        ![n].regs = @ \cup {n},
                                        ![n].discovering = Append(@, NoCookie)]
    /\ events' = [events EXCEPT ![n] =
                     Append(@, Event("Registered", mainpc[n], <<>>, NoCookie))]
    /\ UNCHANGED <<handlerVars, historyVars, mainpc, cookie, bootVars, regVars,
                   ioVars, sendVars, netVars>>

\* The addresses the Discovered arm dials: for every registration, once for
\* each of its addresses, relay_address.with(P2pCircuit).with(P2p(peer)).
RECURSIVE DiscoveredDials(_)
DiscoveredDials(registrations) ==
    IF registrations = <<>> THEN <<>>
    ELSE LET peer == Head(registrations).peer_id
             addresses == Head(registrations).addresses
         IN [i \in 1..Len(addresses) |->
                DialCall(with(with(relay_address, P2pCircuit), peer))]
            \o DiscoveredDials(Tail(registrations))

\* Event::Rendezvous(Discovered { registrations, cookie: new_cookie, .. }),
\* the answer to the discover request number i in flight: cookie.replace(
\* new_cookie), then swarm.dial(..).unwrap() in turn; failed = 0 when every
\* dial returns Ok, else the number of the dial that returns Err.
MainDiscovered(n, i, failed) ==
    /\ mainpc[n] = "steady"
    /\ i \in 1..Len(rendezvous[n].discovering)
    /\ LET rdv == rendezvous[n]
           response == DiscoverResponse(rdv.regs, rdv.discovering[i])
           dials == DiscoveredDials(response.registrations)
       IN /\ failed \in 0..Len(dials)
          /\ cookie' = [cookie EXCEPT ![n] = SomeCookie(response.cookie)]
          /\ calls' = [calls EXCEPT ![n] =
                @ \o (IF failed = 0 THEN dials ELSE SubSeq(dials, 1, failed))]
          /\ mainpc' = [mainpc EXCEPT ![n] =
                IF failed = 0 THEN @ ELSE "panicked"]
          /\ rendezvous' = [rendezvous EXCEPT ![n].discovering =
                SubSeq(@, 1, i - 1) \o SubSeq(@, i + 1, Len(@))]
          /\ events' = [events EXCEPT ![n] =
                Append(@, Event("Discovered", mainpc[n],
                                [k \in 1..Len(response.registrations) |->
                                    response.registrations[k].peer_id],
                                SomeCookie(response.cookie)))]
    /\ UNCHANGED <<handlerVars, historyVars, bootVars, regVars, ioVars,
                   sendVars, netVars>>

\* Another peer's registration reaches the rendezvous point.
OtherRegisters(n) ==
    /\ Other(n) \notin rendezvous[n].regs
    /\ rendezvous' = [rendezvous EXCEPT ![n].regs = @ \cup {Other(n)}]
    /\ UNCHANGED <<handlerVars, historyVars, mainpc, calls, cookie, events,
                   bootVars, regVars, ioVars, sendVars, netVars>>

\* ------------------------------------------------------------------ initial states

\* The program of each node as main enters the bootstrap loop, with a fresh
\* receive directory.
Init ==
    /\ queued_events = [n \in Node |-> HandlerNew]
    /\ last_poll = [n \in Node |-> [kind |-> "None"]]
    /\ enq = [n \in Node |-> <<>>]
    /\ ret = [n \in Node |-> <<>>]
    /\ unret = [n \in Node |-> {}]
    /\ resolved = [n \in Node |-> <<>>]
    /\ watch = [n \in Node |-> WatchNone]
    /\ mainpc = [n \in Node |-> "bootstrap"]
    /\ calls = [n \in Node |->
                  <<ListenOnCall(LocalAddress), DialCall(relay_address)>>]
    /\ cookie = [n \in Node |-> NoCookie]
    /\ rendezvous = [n \in Node |-> RendezvousNew]
    /\ events = [n \in Node |-> <<>>]
    /\ learned_observed_addr = [n \in Node |-> FALSE]
    /\ told_relay_observed_addr = [n \in Node |-> FALSE]
    /\ peers = [n \in Node |-> <<>>]
    /\ conns = [n \in Node |-> {}]
    /\ opened = [n \in Node |-> 0]
    /\ line = [n \in Node |-> <<"none">>]
    /\ nlines = [n \in Node |-> 0]
    /\ listing = [n \in Node |-> <<"none">>]
    /\ stderr = [n \in Node |-> <<>>]
    /\ sessions = [n \in Node |-> <<>>]
    /\ file_chan = [n \in Node |-> <<>>]
    /\ submitted = [n \in Node |-> <<>>]
    /\ net = [n \in Node |-> <<>>]
    /\ inbox = [n \in Node |-> <<>>]
    /\ recv_files = [n \in Node |-> [p \in PeerIds |-> <<>>]]
    /\ handled = [n \in Node |-> <<>>]
    /\ stacked = FALSE

\* The program of each node after its first swarm.listen_on, as main enters
\* the listen wait.
InitStartup ==
    /\ queued_events = [n \in Node |-> HandlerNew]
    /\ last_poll = [n \in Node |-> [kind |-> "None"]]
    /\ enq = [n \in Node |-> <<>>]
    /\ ret = [n \in Node |-> <<>>]
    /\ unret = [n \in Node |-> {}]
    /\ resolved = [n \in Node |-> <<>>]
    /\ watch = [n \in Node |-> WatchNone]
    /\ mainpc = [n \in Node |-> "listen"]
    /\ calls = [n \in Node |-> <<ListenOnCall(LocalAddress)>>]
    /\ cookie = [n \in Node |-> NoCookie]
    /\ rendezvous = [n \in Node |-> RendezvousNew]
    /\ events = [n \in Node |-> <<>>]
    /\ learned_observed_addr = [n \in Node |-> FALSE]
    /\ told_relay_observed_addr = [n \in Node |-> FALSE]
    /\ peers = [n \in Node |-> <<>>]
    /\ conns = [n \in Node |-> {}]
    /\ opened = [n \in Node |-> 0]
    /\ line = [n \in Node |-> <<"none">>]
    /\ nlines = [n \in Node |-> 0]
    /\ listing = [n \in Node |-> <<"none">>]
    /\ stderr = [n \in Node |-> <<>>]
    /\ sessions = [n \in Node |-> <<>>]
    /\ file_chan = [n \in Node |-> <<>>]
    /\ submitted = [n \in Node |-> <<>>]
    /\ net = [n \in Node |-> <<>>]
    /\ inbox = [n \in Node |-> <<>>]
    /\ recv_files = [n \in Node |-> [p \in PeerIds |-> <<>>]]
    /\ handled = [n \in Node |-> <<>>]
    /\ stacked = FALSE

\* Both nodes in the steady-state loop: each connected to the relay during
\* its bootstrap loop and to the other node afterwards.
InitSteady ==
    /\ queued_events = [n \in Node |-> HandlerNew]
    /\ last_poll = [n \in Node |-> [kind |-> "None"]]
    /\ enq = [n \in Node |-> <<>>]
    /\ ret = [n \in Node |-> <<>>]
    /\ unret = [n \in Node |-> {}]
    /\ resolved = [n \in Node |-> <<>>]
    /\ watch = [n \in Node |-> WatchNone]
    /\ mainpc = [n \in Node |-> "steady"]
    /\ calls = [n \in Node |->
                  <<ListenOnCall(LocalAddress), DialCall(relay_address),
                    RegisterCall(NAMESPACE),
                    ListenOnCall(with(relay_address, P2pCircuit))>>]
    /\ cookie = [n \in Node |-> NoCookie]
    /\ rendezvous = [n \in Node |-> [RendezvousNew EXCEPT !.registering = 1]]
    /\ events = [n \in Node |-> <<>>]
    /\ learned_observed_addr = [n \in Node |-> TRUE]
    /\ told_relay_observed_addr = [n \in Node |-> TRUE]
    /\ peers = [n \in Node |-> registry_insert(<<>>, Other(n), "e2")]
    /\ conns = [n \in Node |->
                  {[id |-> 1, peer_id |-> "R", endpoint |-> "e1"],
                   [id |-> 2, peer_id |-> Other(n), endpoint |-> "e2"]}]
    /\ opened = [n \in Node |-> 2]
    /\ line = [n \in Node |-> <<"none">>]
    /\ nlines = [n \in Node |-> 0]
    /\ listing = [n \in Node |-> <<"none">>]
    /\ stderr = [n \in Node |-> <<>>]
    /\ sessions = [n \in Node |-> <<>>]
    /\ file_chan = [n \in Node |-> <<>>]
    /\ submitted = [n \in Node |-> <<>>]
    /\ net = [n \in Node |-> <<>>]
    /\ inbox = [n \in Node |-> <<>>]
    /\ recv_files = [n \in Node |-> [p \in PeerIds |-> <<>>]]
    /\ handled = [n \in Node |-> <<>>]
    /\ stacked = FALSE

mainVars ==
    <<mainpc, startVars, bootVars, regVars, ioVars, sendVars, netVars>>

\* ------------------------------------------------------------------ the Handler under the substrate's calls

\* The history of an enqueueing call: what was handed over, and as which kind.
Enqueued(n, kind, data) ==
    /\ enq' = [enq EXCEPT ![n] = Append(@, [kind |-> kind, data |-> data])]
    /\ unret' = [unret EXCEPT ![n] = @ \cup {Len(enq[n]) + 1}]
    /\ UNCHANGED <<ret, last_poll, resolved, watch>>

\* The history of a poll that returned r: a returned event accounts for the
\* latest position of enq not yet accounted for.
Polled(n, r) ==
    /\ last_poll' = [last_poll EXCEPT ![n] = r]
    /\ UNCHANGED <<enq, resolved, watch>>
    /\ IF r = Pending
       THEN UNCHANGED <<ret, unret>>
       ELSE /\ ret' = [ret EXCEPT ![n] = Append(@, r)]
            /\ unret' = [unret EXCEPT ![n] =
                            IF @ = {} THEN {} ELSE @ \ {SetMax(@)}]

\* The substrate completes an inbound substream of n's connection carrying d.
HandlerInbound(n, d) ==
    /\ Len(enq[n]) < MaxEvents
    /\ queued_events' = [queued_events EXCEPT ![n] =
                            inject_fully_negotiated_inbound(@, d)]
    /\ Enqueued(n, "Custom", d)
    /\ UNCHANGED mainVars

\* The behaviour notifies n's handler of a send request carrying d.
HandlerSubmit(n, d) ==
    /\ Len(enq[n]) < MaxEvents
    /\ queued_events' = [queued_events EXCEPT ![n] = inject_event(@, MsgContent(d))]
    /\ Enqueued(n, "OutboundSubstreamRequest", d)
    /\ UNCHANGED mainVars

\* The substrate polls n's handler.
HandlerPoll(n) ==
    /\ queued_events' = [queued_events EXCEPT ![n] = poll(@).self]
    /\ Polled(n, poll(queued_events[n]).ret)
    /\ UNCHANGED mainVars

SubstrateInbound == \E d \in Payloads : HandlerInbound("A", d)

SubstrateSubmit == \E d \in Payloads : HandlerSubmit("A", d)

SubstratePoll == HandlerPoll("A")

HandlerNext == SubstrateInbound \/ SubstrateSubmit \/ SubstratePoll

SpecHandler == Init /\ [][HandlerNext]_vars

\* ------------------------------------------------------------------ the Handler and the outcomes of its outbound substreams

\* The outbound substreams n's handler has requested whose outcome the
\* substrate has not reported yet.
Outstanding(n) ==
    Len(SelectSeq(ret[n], LAMBDA e : e.kind = "OutboundSubstreamRequest"))
        - Len(resolved[n])

\* The substrate reports an outbound substream of n's connection as completed.
HandlerOutboundComplete(n) ==
    /\ Outstanding(n) > 0
    /\ queued_events' = [queued_events EXCEPT ![n] =
                            inject_fully_negotiated_outbound(@, Success)]
    /\ resolved' = [resolved EXCEPT ![n] = Append(@, Success)]
    /\ UNCHANGED <<last_poll, enq, ret, unret, watch, mainVars>>

\* The substrate reports an outbound substream of n's connection as failed.
HandlerDialUpgradeError(n, error) ==
    /\ Outstanding(n) > 0
    /\ queued_events' = [queued_events EXCEPT ![n] =
                            inject_dial_upgrade_error(@, <<>>, error)]
    /\ resolved' = [resolved EXCEPT ![n] = Append(@, error)]
    /\ UNCHANGED <<last_poll, enq, ret, unret, watch, mainVars>>

SubstrateOutboundComplete == HandlerOutboundComplete("A")

SubstrateDialUpgradeError ==
    \E error \in UpgradeErrors : HandlerDialUpgradeError("A", error)

OutcomesNext ==
    \/ SubstrateInbound
    \/ SubstrateSubmit
    \/ SubstratePoll
    \/ SubstrateOutboundComplete
    \/ SubstrateDialUpgradeError

SpecOutcomes == Init /\ [][OutcomesNext]_vars

\* ------------------------------------------------------------------ the Handler under events that never stop coming

\* The history after the enqueueing of ev on the queue q: the event is the
\* one followed from now on if w says so and none is followed yet, and else
\* counts as a later event of the one followed while that is queued.
WatchEnqueued(wt, q, ev, w) ==
    IF wt.state = "none" /\ w
    THEN [state |-> "queued", ev |-> ev, pos |-> Len(q) + 1, later |-> 0]
    ELSE IF wt.state = "queued"
    THEN [wt EXCEPT !.later = Min(@ + 1, MaxQueued)]
    ELSE wt

\* The history after a poll that returned r.ret and left the queue r.self:
\* the event followed is returned when poll returns it and its place is gone.
WatchPolled(wt, r) ==
    IF wt.state = "queued" /\ r.ret = wt.ev /\ Len(r.self) < wt.pos
    THEN [wt EXCEPT !.state = "returned"]
    ELSE wt

\* The substrate completes an inbound substream of n's connection carrying d.
StreamInbound(n, d, w) ==
    /\ Len(queued_events[n]) < MaxQueued
    /\ queued_events' = [queued_events EXCEPT ![n] =
                            inject_fully_negotiated_inbound(@, d)]
    /\ watch' = [watch EXCEPT ![n] =
                    WatchEnqueued(@, queued_events[n], Custom(MsgContent(d)), w)]
    /\ UNCHANGED <<last_poll, enq, ret, unret, resolved, mainVars>>

\* The behaviour notifies n's handler of a send request carrying d.
StreamSubmit(n, d, w) ==
    /\ Len(queued_events[n]) < MaxQueued
    /\ queued_events' = [queued_events EXCEPT ![n] =
                            inject_event(@, MsgContent(d))]
    /\ watch' = [watch EXCEPT ![n] =
                    WatchEnqueued(@, queued_events[n],
                                  OutboundSubstreamRequest(MsgContent(d)), w)]
    /\ UNCHANGED <<last_poll, enq, ret, unret, resolved, mainVars>>

\* The substrate polls n's handler.
StreamPoll(n) ==
    /\ queued_events' = [queued_events EXCEPT ![n] = poll(@).self]
    /\ last_poll' = [last_poll EXCEPT ![n] = poll(queued_events[n]).ret]
    /\ watch' = [watch EXCEPT ![n] = WatchPolled(@, poll(queued_events[n]))]
    /\ UNCHANGED <<enq, ret, unret, resolved, mainVars>>

\* The chunks carried by the events of a stream that never stops.
StreamPayloads == {<<1>>, <<2, 3>>}

StreamEnqueue ==
    \E d \in StreamPayloads, w \in BOOLEAN :
        StreamInbound("A", d, w) \/ StreamSubmit("A", d, w)

StreamNext == StreamEnqueue \/ StreamPoll("A")

\* The substrate polls again and again.
FairStream == Init /\ [][StreamNext]_vars /\ WF_vars(StreamPoll("A"))

\* ------------------------------------------------------------------ connections and the registry of node A

RegBootEstablished ==
    \E p \in PeerIds, e \in Endpoints : BootConnectionEstablished("A", p, e)

RegBootClosed == \E c \in conns["A"] : BootConnectionClosed("A", c)

RegIdentifySent == BootIdentifySent("A")

RegIdentifyReceived == BootIdentifyReceived("A")

RegEstablished ==
    \E p \in PeerIds, e \in Endpoints : MainConnectionEstablished("A", p, e)

RegClosed == \E c \in conns["A"] : MainConnectionClosed("A", c)

RegListPeers == \E str \in StdinLines : MainListPeers("A", str)

RegistryNext ==
    \/ RegBootEstablished
    \/ RegBootClosed
    \/ RegIdentifySent
    \/ RegIdentifyReceived
    \/ RegEstablished
    \/ RegClosed
    \/ RegListPeers

SpecRegistry == Init /\ [][RegistryNext]_vars

\* ------------------------------------------------------------------ the startup of node A

StartNewListenAddr == ListenNewListenAddr("A")

StartOtherEvent == ListenOtherEvent("A")

StartTimeout == ListenTimeout("A")

StartDial == \E result \in DialResults : BootstrapDial("A", result)

StartBootRegistered == BootRegistered("A")

StartRegistered == MainRegistered("A")

\* The most dials one discovery response leads to: one for every address of
\* every peer that registers.
MaxDials == Len(Addresses("A")) + Len(Addresses("B"))

StartDiscovered ==
    \E i \in 1..Len(rendezvous["A"].discovering), failed \in 0..MaxDials :
        MainDiscovered("A", i, failed)

StartOtherRegisters == OtherRegisters("A")

StartupNext ==
    \/ StartNewListenAddr
    \/ StartOtherEvent
    \/ StartTimeout
    \/ StartDial
    \/ RegBootEstablished
    \/ RegIdentifySent
    \/ RegIdentifyReceived
    \/ StartBootRegistered
    \/ StartRegistered
    \/ StartDiscovered
    \/ StartOtherRegisters

SpecStartup == InitStartup /\ [][StartupNext]_vars

\* The startup with a swarm that delivers every event it holds for main and
\* a main that handles every event delivered to it.
FairStartup ==
    /\ SpecStartup
    /\ WF_vars(StartTimeout)
    /\ WF_vars(StartDial)
    /\ WF_vars(RegIdentifySent)
    /\ WF_vars(RegIdentifyReceived)
    /\ WF_vars(StartBootRegistered)
    /\ WF_vars(StartRegistered)
    /\ WF_vars(StartDiscovered)

\* ------------------------------------------------------------------ commands and send sessions of node A

CmdListPeers == \E str \in StdinLines : MainListPeers("A", str)

CmdSendFile == \E str \in StdinLines : MainSendFile("A", str)

CmdWrongCommand == \E str \in StdinLines : MainWrongCommand("A", str)

CmdUnknown == \E str \in StdinLines : MainUnknown("A", str)

TaskOpen == \E s \in 1..Len(sessions["A"]) : SendFileOpen("A", s)

TaskOpenErr == \E s \in 1..Len(sessions["A"]) : SendFileOpenErr("A", s)

TaskLoop == \E s \in 1..Len(sessions["A"]) : SendFileLoop("A", s)

TaskReadErr == \E s \in 1..Len(sessions["A"]) : SendFileReadErr("A", s)

FileRx == MainFileRx("A")

SendNext ==
    \/ CmdListPeers
    \/ CmdSendFile
    \/ CmdWrongCommand
    \/ CmdUnknown
    \/ TaskOpen
    \/ TaskOpenErr
    \/ TaskLoop
    \/ TaskReadErr
    \/ FileRx

SpecSend == InitSteady /\ [][SendNext]_vars

\* The same with a main loop that takes from the channel what is in it.
FairSend == SpecSend /\ WF_vars(FileRx)

\* ------------------------------------------------------------------ one send session of node A

\* One file command on A's stdin, for any of the files.
SessionCommand ==
    /\ sessions["A"] = <<>>
    /\ \E str \in SessionLines : MainSendFile("A", str)

SessionNext ==
    \/ SessionCommand
    \/ TaskOpen
    \/ TaskOpenErr
    \/ TaskLoop
    \/ TaskReadErr
    \/ FileRx

SpecSession == InitSteady /\ [][SessionNext]_vars

\* ------------------------------------------------------------------ node A sends the file f6 to node B

\* The line `file B f6` on A's stdin.
E2ECommand ==
    /\ sessions["A"] = <<>>
    /\ MainSendFile("A", <<"file", " ", "B", " ", "f6">>)

E2EPollA == SwarmPoll("A")

E2EArrives == SubstreamArrives("A")

E2EPollB == SwarmPoll("B")

E2EReceive == MainSendEvent("B")

EndToEndNext ==
    \/ E2ECommand
    \/ TaskOpen
    \/ TaskLoop
    \/ TaskReadErr
    \/ FileRx
    \/ E2EPollA
    \/ E2EArrives
    \/ E2EPollB
    \/ E2EReceive

SpecEndToEnd == InitSteady /\ [][EndToEndNext]_vars

\* ------------------------------------------------------------------ node B receives chunks from its peers

\* The behaviour of B emits the Event::Send of a chunk received from peer p.
BehaviourEmits(n, p, d) ==
    /\ Len(handled[n]) + Len(inbox[n]) < MaxEvents
    /\ inbox' = [inbox EXCEPT ![n] =
                    Append(@, SendEvent(p, Custom(MsgContent(d))))]
    /\ UNCHANGED <<handlerVars, historyVars, startVars, mainpc, bootVars,
                   regVars, ioVars, sendVars, net, recv_files, handled, stacked>>

RecvEmits ==
    \E p \in PeerIds \ {"B"}, d \in Payloads : BehaviourEmits("B", p, d)

RecvHandle == MainSendEvent("B")

RecvHandleErr == \E k \in 0..BUFFER_SIZE : MainSendEventErr("B", k)

ReceiveNext == RecvEmits \/ RecvHandle \/ RecvHandleErr

SpecReceive == InitSteady /\ [][ReceiveNext]_vars

\* ------------------------------------------------------------------ claims

\* C1: every poll of a non-empty queue returns the most recently enqueued
\* event that has not been returned yet, whichever of the two kinds it is; a
\* poll of an empty queue returns Pending and leaves the queue as it is.
C1_PollIsLastInFirstOut ==
    [][\A n \in Node :
          HandlerPoll(n) =>
              IF queued_events[n] # <<>>
              THEN /\ unret[n] # {}
                   /\ last_poll'[n] = enq[n][SetMax(unret[n])]
              ELSE /\ last_poll'[n] = Pending
                   /\ queued_events'[n] = queued_events[n]]_vars

\* C1 witness: an outbound request and a chunk-received event were queued
\* together and came back latest first, and a later poll found the queue empty.
C1_Witness ==
    /\ Len(ret["A"]) >= 2
    /\ ret["A"][1] = enq["A"][2]
    /\ ret["A"][2] = enq["A"][1]
    /\ ret["A"][1].kind # ret["A"][2].kind
    /\ ret["A"][1].data # ret["A"][2].data
    /\ last_poll["A"] = Pending

\* C2: the events poll has returned together with the events still queued are,
\* as a multiset, the events enqueued so far, kind and bytes unchanged.
C2_NoDropNoDuplicate ==
    \A n \in Node :
        BagOfSeq(ret[n]) (+) BagOfSeq(queued_events[n]) = BagOfSeq(enq[n])

\* C2 witness: events of both kinds were enqueued, one has been returned out of
\* submission order and others are still queued.
C2_Witness ==
    /\ Len(enq["A"]) >= 3
    /\ Len(ret["A"]) >= 1
    /\ ret["A"][1] # enq["A"][1]
    /\ Len(queued_events["A"]) >= 2
    /\ \E i, j \in 1..Len(enq["A"]) : enq["A"][i].kind # enq["A"][j].kind

\* The sessions of node A that read a file that exists.
Reading == {s \in 1..Len(sessions["A"]) : FileExists(sessions["A"][s].file_path)}

\* The items of a channel or submission history that session s pushed.
Of(items, s) == SelectSeq(items, LAMBDA it : it.sid = s)

DataOf(items) == [k \in 1..Len(items) |-> items[k].data]

\* C3: the chunks a send session has pushed, concatenated in push order, are
\* the bytes of the file up to the session's read cursor, and the whole file
\* once the session has ended with Ok; every chunk pushed is non-empty and at
\* most BUFFER_SIZE bytes long.
C3_ChunksAreTheFile ==
    \A s \in Reading :
        LET ses == sessions["A"][s]
            bytes == FileBytes(ses.file_path)
        IN /\ Concat(ses.pushed) = SubSeq(bytes, 1, ses.pos)
           /\ ses.pc = "ok" => Concat(ses.pushed) = bytes
           /\ \A k \in 1..Len(ses.pushed) :
                  Len(ses.pushed[k]) \in 1..BUFFER_SIZE

\* C3 witness: a session over the three-byte file has ended with Ok after a
\* short first read and a full second one, and its chunks were submitted.
C3_Witness ==
    \E s \in Reading :
        /\ sessions["A"][s].pc = "ok"
        /\ sessions["A"][s].file_path = <<"f3">>
        /\ sessions["A"][s].pushed = <<<<1>>, <<2, 3>>>>
        /\ DataOf(submitted["A"]) = <<<<1>>, <<2, 3>>>>

\* The peers ls would print now.
Listed(n) == {handle_list_peers(peers[n])[i] : i \in 1..Len(handle_list_peers(peers[n]))}

\* The peers with at least one open connection.
Connected(n) == {c.peer_id : c \in conns[n]}

\* C4: in the steady-state loop, whatever connections were established and
\* closed before (in the bootstrap loop too, several of one peer too), ls
\* prints a peer if and only if the peer has an open connection.
C4_ListedIffConnected ==
    mainpc["A"] = "steady" => Listed("A") = Connected("A")

\* C5: a session over a file of k * BUFFER_SIZE bytes pushes full-sized chunks
\* only and, once ended with Ok, has pushed exactly k of them.
C5_ExactMultiple ==
    \A s \in Reading :
        LET ses == sessions["A"][s]
            bytes == FileBytes(ses.file_path)
        IN Len(bytes) % BUFFER_SIZE = 0 =>
              /\ \A k \in 1..Len(ses.pushed) : Len(ses.pushed[k]) = BUFFER_SIZE
              /\ ses.pc = "ok" => Len(ses.pushed) * BUFFER_SIZE = Len(bytes)

\* The sessions of node A over the zero-byte file.
OverEmpty == {s \in Reading : FileBytes(sessions["A"][s].file_path) = <<>>}

\* C6: a session over a zero-byte file pushes no chunk, none of its chunks is
\* in the channel or submitted to the handler, and the turn of its loop whose
\* read succeeds ends it with Ok(()).
C6_EmptyFile ==
    /\ [](\A s \in OverEmpty :
            /\ sessions["A"][s].pushed = <<>>
            /\ Of(file_chan["A"], s) = <<>>
            /\ Of(submitted["A"], s) = <<>>)
    /\ [][\A s \in OverEmpty :
            SendFileLoop("A", s) =>
                /\ sessions'["A"][s].pc = "ok"
                /\ file_chan' = file_chan
                /\ queued_events' = queued_events]_vars

\* C6 witness: a session over the zero-byte file has ended with Ok.
C6_Witness ==
    \E s \in OverEmpty :
        /\ sessions["A"][s].pc = "ok"
        /\ sessions["A"][s].pushed = <<>>
        /\ file_chan["A"] = <<>>
        /\ queued_events["A"] = <<>>

\* C8: the chunks of one session reach the handler in the order the session
\* pushed them, which is their order in the file: those submitted, then those
\* in the channel, are the session's chunks in push order, and of any two of
\* them the earlier holds the earlier bytes of the file (byte i of a file is
\* i), whatever other sessions push in between.
C8_SessionOrderKept ==
    \A s \in 1..Len(sessions["A"]) :
        LET items == Of(submitted["A"], s) \o Of(file_chan["A"], s) IN
        /\ DataOf(items) = sessions["A"][s].pushed
        /\ \A k \in 1..Len(items) : items[k].seq = k
        /\ \A k, l \in 1..Len(items) :
               k < l => \A i \in 1..Len(items[k].data), j \in 1..Len(items[l].data) :
                           items[k].data[i] < items[l].data[j]

\* C8 witness: the chunks of two sessions are interleaved in the submissions.
C8_Witness ==
    \E i, j, k \in 1..Len(submitted["A"]) :
        /\ i < j
        /\ j < k
        /\ submitted["A"][i].sid = submitted["A"][k].sid
        /\ submitted["A"][i].sid # submitted["A"][j].sid
        /\ submitted["A"][i].data # submitted["A"][k].data

\* main of node n reads the line str from stdin in this step.
Reads(n, str) ==
    /\ nlines'[n] = nlines[n] + 1
    /\ line'[n] = str

\* The file lines whose peer id does not parse or that lack an argument.
MalformedFileLines ==
    { <<"file", " ", "not-a-peer-id", " ", "f3">>,
      <<"file", " ", " ", "B", " ", "f3">>,
      <<"file", " ", "B">>,
      <<"file">> }

\* C9: reading a malformed file line starts no session, pushes nothing,
\* writes the wrong-command message to the error stream and leaves the
\* registry and the loop as they are; an ls read after such a report is
\* answered with the peers of the registry.
C9_MalformedFileLine ==
    /\ [][\A str \in MalformedFileLines :
            Reads("A", str) =>
                /\ sessions' = sessions
                /\ file_chan' = file_chan
                /\ queued_events' = queued_events
                /\ peers' = peers
                /\ mainpc'["A"] = "steady"
                /\ stderr'["A"] = Append(stderr["A"], WrongCommand)]_vars
    /\ [][(Reads("A", <<"ls">>) /\ Len(stderr["A"]) > 0) =>
            /\ Len(listing'["A"]) = Cardinality(DOMAIN peers["A"])
            /\ \A i \in 1..Len(listing'["A"]) :
                   listing'["A"][i] \in DOMAIN peers["A"]]_vars

\* C9 witness: after `file not-a-peer-id f3` was reported, ls printed peer B.
C9_Witness ==
    /\ line["A"] = <<"ls">>
    /\ nlines["A"] = 2
    /\ listing["A"] = <<"B">>
    /\ stderr["A"] = <<WrongCommand>>
    /\ sessions["A"] = <<>>

\* The lines that are neither ls nor a file command.
OtherLines == { <<"hello">>, <<>> }

\* C10: reading a line that is neither ls nor a file command changes nothing
\* but writes the usage message to the error stream.
C10_OtherLineReported ==
    [][\A str \in OtherLines :
          Reads("A", str) =>
              /\ sessions' = sessions
              /\ file_chan' = file_chan
              /\ peers' = peers
              /\ stderr'["A"] = Append(stderr["A"], WrongCommand)]_vars

\* The transfer of f6 is over: the session has ended with Ok and every chunk
\* it pushed has made its way to B's receive file.
E2EDone ==
    /\ Len(sessions["A"]) = 1
    /\ sessions["A"][1].pc = "ok"
    /\ file_chan["A"] = <<>>
    /\ queued_events["A"] = <<>>
    /\ net["A"] = <<>>
    /\ queued_events["B"] = <<>>
    /\ inbox["B"] = <<>>

\* Whether bytes is the chunks, each once, written one after another in
\* some order.
RECURSIVE MadeOf(_, _)
MadeOf(bytes, chunks) ==
    IF chunks = <<>> THEN bytes = <<>>
    ELSE \E i \in 1..Len(chunks) :
            LET c == chunks[i] IN
            /\ Len(c) <= Len(bytes)
            /\ SubSeq(bytes, 1, Len(c)) = c
            /\ MadeOf(SubSeq(bytes, Len(c) + 1, Len(bytes)),
                      SubSeq(chunks, 1, i - 1) \o SubSeq(chunks, i + 1, Len(chunks)))

StepOf(c) ==
    IF c = ListenOnCall(LocalAddress) THEN 1
    ELSE IF c = DialCall(relay_address) THEN 2
    ELSE IF c = ListenOnCall(with(relay_address, P2pCircuit)) THEN 3
    ELSE IF c.op = "register" THEN 4
    ELSE 5

\* C11: the calls of main occur in the order of the startup steps: no call of
\* a later step comes before a call of an earlier one, so no register call
\* before the listen_on for relayed connections.
C11_StartupInOrder ==
    \A i, j \in 1..Len(calls["A"]) :
        i < j => StepOf(calls["A"][i]) <= StepOf(calls["A"][j])

\* C12: once main has handled a Registered event for the namespace, in the
\* bootstrap loop or in the steady-state loop, it eventually calls discover
\* for the namespace.
C12_RegisteredLeadsToDiscover ==
    (\E i \in 1..Len(events["A"]) : events["A"][i].ev = "Registered")
        ~> (\E j \in 1..Len(calls["A"]) :
                calls["A"][j].op = "discover" /\ calls["A"][j].namespace = NAMESPACE)

\* C13: main calls rendezvous discover at most once in a run.
C13_DiscoverAtMostOnce ==
    Len(CallsOf(calls["A"], "discover")) <= 1

\* The peer a dial call is a relayed dial to: the P2p protocol that ends
\* relay_address.with(P2pCircuit).with(P2p(peer)).
RelayedDialTo(c, p) ==
    /\ c.op = "dial"
    /\ c.addr = with(with(relay_address, P2pCircuit), p)

\* The calls main made in this step.
NewCalls(n) == SubSeq(calls'[n], Len(calls[n]) + 1, Len(calls'[n]))

\* The Discovered event main handled in this step.
NewDiscovered(n) == events'[n][Len(events'[n])]

\* main of node n handles a Discovered event in this step, and every dial
\* returns Ok.
HandlesDiscovered(n) ==
    /\ Len(events'[n]) = Len(events[n]) + 1
    /\ NewDiscovered(n).ev = "Discovered"
    /\ mainpc'[n] = "steady"

\* C14: the step that handles a discovery response dials, through the relay,
\* every peer of the response that is not the local peer, and no call of main
\* is ever a dial to the local peer.
C14_DialsOthersNeverSelf ==
    /\ [][HandlesDiscovered("A") =>
            \A k \in 1..Len(NewDiscovered("A").registrations) :
                LET p == NewDiscovered("A").registrations[k] IN
                p # "A" => \E j \in 1..Len(NewCalls("A")) :
                              RelayedDialTo(NewCalls("A")[j], p)]_vars
    /\ [](\A j \in 1..Len(calls["A"]) : ~RelayedDialTo(calls["A"][j], "A"))

\* C15: every discover call main makes after it has handled a discovery
\* response carries the cookie main holds, which is the cookie of the latest
\* response; and no registration is in two of the responses main handled.
C15_CookieCarried ==
    /\ [][\A j \in 1..Len(NewCalls("A")) :
            (NewCalls("A")[j].op = "discover"
             /\ EventsOf(events["A"], "Discovered") # <<>>) =>
                LET ds == EventsOf(events["A"], "Discovered") IN
                /\ NewCalls("A")[j].cookie = ds[Len(ds)].cookie
                /\ NewCalls("A")[j].cookie = cookie["A"]]_vars
    /\ [](LET ds == EventsOf(events["A"], "Discovered") IN
          \A i, j \in 1..Len(ds) :
              i < j => \A k \in 1..Len(ds[i].registrations),
                         l \in 1..Len(ds[j].registrations) :
                           ds[i].registrations[k] # ds[j].registrations[l])

\* C16: whatever event the swarm delivers during the listen wait, the wait
\* goes on or ends into the bootstrap dial, and never in an abort.
C16_ListenNeverAborts ==
    [][mainpc["A"] = "listen" => mainpc'["A"] \in {"listen", "dial"}]_vars

\* C20: main calls rendezvous register at most once, and exactly once by the
\* time the bootstrap loop has ended; the loop ends only with both
\* learned_observed_addr and told_relay_observed_addr set, the first by an
\* Identify Received and the second by an Identify Sent.
C20_RegisterExactlyOnce ==
    /\ Len(CallsOf(calls["A"], "register")) <= 1
    /\ mainpc["A"] = "steady" =>
          /\ Len(CallsOf(calls["A"], "register")) = 1
          /\ learned_observed_addr["A"]
          /\ told_relay_observed_addr["A"]

\* The events of sender p among the events handled, and their bytes.
From(hs, p) == SelectSeq(hs, LAMBDA h : h.peer = p)

BytesOf(hs) == Concat([k \in 1..Len(hs) |-> hs[k].data])

WroteOf(hs) == Concat([k \in 1..Len(hs) |-> hs[k].wrote])

\* main of node n handles an Event::Send in this step.
HandlesSend(n) == Len(handled'[n]) = Len(handled[n]) + 1

\* C17 as claimed: the receive file of every sender is the bytes of all the
\* chunk-received events from that sender handled so far, in handling order.
C17_FileIsAllEvents ==
    \A p \in PeerIds : recv_files["B"][p] = BytesOf(From(handled["B"], p))

\* C17 as amended: the receive file of every sender is what the handlings of
\* the events from that sender wrote, in handling order: all the bytes of an
\* event whose handling returned Ok, and the bytes before the failure, short
\* of all, of one whose handling returned an error and was reported; the
\* handling of an event from p appends to p's file and leaves the bytes it
\* held and the files of the other senders as they were.
C17_FileIsWhatWasWritten ==
    /\ [](\A p \in PeerIds :
            /\ recv_files["B"][p] = WroteOf(From(handled["B"], p))
            /\ \A k \in 1..Len(handled["B"]) :
                   LET h == handled["B"][k] IN
                   /\ h.wrote = SubSeq(h.data, 1, Len(h.wrote))
                   /\ h.ok => h.wrote = h.data
                   /\ ~h.ok => (Len(h.wrote) < Len(h.data) \/ h.data = <<>>))
    /\ [][HandlesSend("B") =>
            LET h == handled'["B"][Len(handled'["B"])] IN
            /\ recv_files'["B"][h.peer] = recv_files["B"][h.peer] \o h.wrote
            /\ \A q \in PeerIds \ {h.peer} :
                   recv_files'["B"][q] = recv_files["B"][q]
            /\ Len(stderr'["B"]) = Len(stderr["B"]) + (IF h.ok THEN 0 ELSE 1)
            /\ mainpc'["B"] = "steady"]_vars

\* C17 witness: B has handled chunks from A and from R, one of A's with a
\* write that failed after its first byte, and the files hold what was written.
C17_Witness ==
    /\ Len(handled["B"]) = 3
    /\ handled["B"][1] = [peer |-> "A", data |-> <<2, 3>>, ok |-> FALSE,
                          wrote |-> <<2>>]
    /\ handled["B"][2].peer = "R"
    /\ handled["B"][2].ok
    /\ handled["B"][3] = [peer |-> "A", data |-> <<1>>, ok |-> TRUE,
                          wrote |-> <<1>>]
    /\ recv_files["B"]["A"] = <<2, 1>>
    /\ recv_files["B"]["R"] = handled["B"][2].data
    /\ recv_files["B"]["R"] # <<>>

\* The sessions of node A that a failed open or read has ended.
Failed == {s \in 1..Len(sessions["A"]) : sessions["A"][s].pc = "err"}

\* A session of node A fails in this step.
Fails(s) ==
    /\ s \in 1..Len(sessions["A"])
    /\ sessions["A"][s].pc # "err"
    /\ sessions'["A"][s].pc = "err"

\* C18: the step in which an open or a read fails ends that session alone: it
\* writes one report to the error stream, pushes nothing, and leaves the main
\* loop, the channel and every other session as they are. A failed session
\* stays as it is for good (no push, no retry; sessions start with a file
\* command only), there is one report for each failed session, the chunks it
\* pushed before are in the channel or submitted, in push order, and in the
\* end all of them are submitted.
C18_FailureEndsOneSession ==
    /\ [][\A s \in 1..MaxLines :
            Fails(s) =>
                /\ stderr'["A"] = Append(stderr["A"], ErrorReport)
                /\ file_chan' = file_chan
                /\ mainpc'["A"] = "steady"
                /\ Len(sessions'["A"]) = Len(sessions["A"])
                /\ sessions'["A"][s].pushed = sessions["A"][s].pushed
                /\ \A t \in 1..Len(sessions["A"]) :
                       t # s => sessions'["A"][t] = sessions["A"][t]]_vars
    /\ [][/\ \A s \in Failed : sessions'["A"][s] = sessions["A"][s]
          /\ Len(sessions'["A"]) # Len(sessions["A"])
                => nlines'["A"] = nlines["A"] + 1]_vars
    /\ [](/\ Len(SelectSeq(stderr["A"], LAMBDA m : m = ErrorReport))
                = Cardinality(Failed)
          /\ mainpc["A"] = "steady"
          /\ \A s \in Failed :
                DataOf(Of(submitted["A"], s) \o Of(file_chan["A"], s))
                    = sessions["A"][s].pushed)
    /\ \A s \in 1..MaxLines :
          (s \in Failed)
              ~> (s \in Failed
                  /\ DataOf(Of(submitted["A"], s)) = sessions["A"][s].pushed)

\* C18 witness: a session over the two-byte file failed in its second read,
\* after a short first one; its chunk was submitted, and a session started
\* after it ended with Ok.
C18_Witness ==
    /\ Len(sessions["A"]) = 2
    /\ sessions["A"][1].pc = "err"
    /\ sessions["A"][1].file_path = <<"f2">>
    /\ sessions["A"][1].pushed = <<<<1>>>>
    /\ DataOf(Of(submitted["A"], 1)) = <<<<1>>>>
    /\ sessions["A"][2].pc = "ok"
    /\ sessions["A"][2].pushed # <<>>
    /\ stderr["A"] = <<ErrorReport>>

\* The substrate reports the outcome of an outbound substream to n's handler
\* in this step.
Reported(n) == Len(resolved'[n]) = Len(resolved[n]) + 1

\* C19: the report of a completed outbound substream and the report of a
\* failed one leave the handler's queue as it is: nothing is added to it (no
\* event, no second request), nothing is taken from it.
C19_OutcomesLeaveQueue ==
    [][\A n \in Node :
          Reported(n) =>
              /\ queued_events'[n] = queued_events[n]
              /\ poll(queued_events'[n]) = poll(queued_events[n])]_vars

\* C19 witness: the handler was told of a completed and of a failed outbound
\* substream while an event was queued, and the event is still queued.
C19_Witness ==
    /\ resolved["A"] = <<Success, "Timeout">>
    /\ Len(enq["A"]) = 3
    /\ queued_events["A"] = <<Custom(MsgContent(<<2, 3>>))>>
    /\ enq["A"][1].kind = "Custom"

\* C21 as claimed: with a substrate that polls again and again, an event
\* enqueued on the handler is eventually returned by poll, whatever is
\* enqueued after it.
C21_EveryEventReturned ==
    (watch["A"].state = "queued") ~> (watch["A"].state = "returned")

\* C21 as amended: with a substrate that polls again and again, an event
\* enqueued on the handler is eventually returned by poll, unless events are
\* enqueued after it again and again for ever.
C21_ReturnedUnlessOvertakenForEver ==
    \/ []<><<StreamEnqueue>>_vars
    \/ (watch["A"].state = "queued") ~> (watch["A"].state = "returned")

\* C21 witness: an outbound request was returned by poll after the events
\* enqueued after it, as many as the queue holds and more, were returned.
C21_Witness ==
    /\ watch["A"].state = "returned"
    /\ watch["A"].ev.kind = "OutboundSubstreamRequest"
    /\ watch["A"].pos = 1
    /\ watch["A"].later = MaxQueued
    /\ last_poll["A"] = watch["A"].ev
    /\ queued_events["A"] = <<>>

====
